---- MODULE Spec2Model ----
(***************************************************************************)
(* zPref: typed, lazily cached, NVS-backed preference variables            *)
(* (zPrefBase.h), their registry, the typed NVS accessors (zPref.cpp),     *)
(* the text codec (type_converter.cpp) and the versioned controller        *)
(* zPref<TDerived> with its Init / OnInit / End life cycle (zPref.h).      *)
(*                                                                         *)
(* Values are tagged records so that values of different C++ types never   *)
(* meet in one comparison: a bool is [b |-> ..], an integer [n |-> ..], a  *)
(* String [s |-> <<chars>>]; an NVS entry is [i8 |-> ..], [u8 |-> ..],     *)
(* [u32 |-> ..] or [str |-> ..], an absent key is [none |-> TRUE].         *)
(* A text is a sequence of one-character strings.                          *)
(***************************************************************************)
EXTENDS Integers, Sequences, FiniteSets

VARIABLES
    program,        \* the derived class: its DECLARE_CONFIG_VARIABLE list
    _variables,     \* zPrefBase::_variables, the registry (declaration order)
    _current,       \* zPrefVariable::_current, per registry index
    initialized,    \* zPrefVariable::initialized, per registry index
    _nvs_handle,    \* zPref::_nvs_handle
    status,         \* zPref::status
    pc,             \* where the (single) thread of control is
    err,            \* Init's local esp_err_t err
    retVal,         \* Init's local eStatus retVal
    storedVersion,  \* Init's local storedVersion
    nvs,            \* NVS: the namespace's entries, key -> entry
    mounted,        \* NVS: nvs_flash_init_partition has succeeded
    flash,          \* NVS: condition of the partition on flash
    openHandles,    \* NVS: the handles nvs_open issued and nvs_close has not closed
    getterCalls,    \* history: invocations of _getter, per registry index
    hook,           \* history: the last completed OnInit call
    initLog,        \* history: the backend calls of the current / last Init
    obs             \* history: the last variable / registry / End call

ctrlVars == <<_nvs_handle, status, pc, err, retVal, storedVersion>>
varVars  == <<program, _variables, _current, initialized>>
nvsVars  == <<nvs, mounted, flash, openHandles>>
histVars == <<getterCalls, hook, initLog, obs>>
vars     == <<ctrlVars, varVars, nvsVars, histVars>>

-----------------------------------------------------------------------------
(* Bounds of the model.                                                    *)

\* the most handles the NVS library hands out before nvs_open reports NO_MEM
MaxHandles == 2
\* the size of the caller's buffer in GetString(buf, len); len ranges over 0..BufCap
BufCap == 3

-----------------------------------------------------------------------------
(* Texts.                                                                  *)

Str(t) == [s |-> t]
Num(n) == [n |-> n]
Boo(b) == [b |-> b]

\* the values an unsigned char holds; the values half an unsigned long holds
\* (the 32-bit result of strtoul is kept as two 16-bit halves)
UCharMod == 256
HalfMod == 65536

DigitVal(c) ==
    CASE c = "0" -> 0 [] c = "1" -> 1 [] c = "2" -> 2 [] c = "3" -> 3
      [] c = "4" -> 4 [] c = "5" -> 5 [] c = "6" -> 6 [] c = "7" -> 7
      [] c = "8" -> 8 [] c = "9" -> 9
      [] c \in {"a", "A"} -> 10 [] c \in {"b", "B"} -> 11
      [] c \in {"c", "C"} -> 12 [] c \in {"d", "D"} -> 13
      [] c \in {"e", "E"} -> 14 [] c \in {"f", "F"} -> 15
      [] OTHER -> 99

IsDigitIn(c, base) == DigitVal(c) < base

RECURSIVE SkipSpace(_)
SkipSpace(t) == IF t # <<>> /\ Head(t) = " " THEN SkipSpace(Tail(t)) ELSE t

\* the leading digits of t in the base accumulated onto hi * 2^16 + lo;
\* strtoul saturates at ULONG_MAX
RECURSIVE Accumulate(_, _, _, _)
Accumulate(t, base, hi, lo) ==
    IF t = <<>> \/ ~IsDigitIn(Head(t), base) THEN [hi |-> hi, lo |-> lo, ovf |-> FALSE]
    ELSE LET l == lo * base + DigitVal(Head(t))
             h == hi * base + (l \div HalfMod)
         IN  IF h >= HalfMod
             THEN [hi |-> HalfMod - 1, lo |-> HalfMod - 1, ovf |-> TRUE]
             ELSE Accumulate(Tail(t), base, h, l % HalfMod)

\* the low 16 bits of strtoul(val, NULL, 0): white space, a sign, a 0x or 0
\* prefix, digits; a negated value wraps modulo 2^32
strtoul0(val) ==
    LET t0  == SkipSpace(val)
        neg == t0 # <<>> /\ Head(t0) = "-"
        t1  == IF t0 # <<>> /\ Head(t0) \in {"-", "+"} THEN Tail(t0) ELSE t0
        hex == Len(t1) >= 3 /\ t1[1] = "0" /\ t1[2] \in {"x", "X"}
               /\ IsDigitIn(t1[3], 16)
        oct == ~hex /\ t1 # <<>> /\ t1[1] = "0"
        mag == IF hex THEN Accumulate(SubSeq(t1, 3, Len(t1)), 16, 0, 0)
               ELSE IF oct THEN Accumulate(t1, 8, 0, 0)
               ELSE Accumulate(t1, 10, 0, 0)
    IN  IF mag.ovf THEN HalfMod - 1
        ELSE IF neg THEN (HalfMod - mag.lo) % HalfMod
        ELSE mag.lo

\* getValue_as<bool> as it would be if it compared without regard to case
getValue_as_Bool_AnyCase(val) ==
    \/ val \in { <<"1">>, <<"t", "r", "u", "e">>, <<"T", "r", "u", "e">>,
                 <<"T", "R", "U", "E">> }

getValue_as_Bool(val) ==
    val = <<"t", "r", "u", "e">> \/ val = <<"1">> \/ val = <<"T", "r", "u", "e">>

getValue_as_UChar(val) == strtoul0(val) % UCharMod

getValue_as_String(val) == val

\* getValue_as<T>(val)
getValue_as(type, val) ==
    CASE type = "Bool"   -> Boo(getValue_as_Bool(val))
      [] type = "UChar"  -> Num(getValue_as_UChar(val))
      [] type = "String" -> Str(getValue_as_String(val))

DigitChar(d) == <<"0", "1", "2", "3", "4", "5", "6", "7", "8", "9">>[d + 1]

\* String(unsigned, 10): the decimal digits, no leading zero
RECURSIVE Decimal(_)
Decimal(n) == IF n < 10 THEN <<DigitChar(n)>>
              ELSE Decimal(n \div 10) \o <<DigitChar(n % 10)>>

\* String(v) as it would be if an unsigned char went to the String(char)
\* constructor: the text is the one character with that code
StringOf_CharCtor(type, v) ==
    CASE type = "Bool"   -> IF v.b THEN <<"1">> ELSE <<"0">>
      [] type = "UChar"  -> <<"c">>
      [] type = "String" -> v.s

\* String(v) for a value of the variable's type T: a bool is promoted to int
StringOf(type, v) ==
    CASE type = "Bool"   -> IF v.b THEN <<"1">> ELSE <<"0">>
      [] type = "UChar"  -> Decimal(v.n)
      [] type = "String" -> v.s

-----------------------------------------------------------------------------
(* The NVS library (ESP-IDF), as the calls of zPref.cpp and zPref.h use it. *)

ESP_OK == "ESP_OK"
ESP_ERR_NVS_NOT_FOUND == "ESP_ERR_NVS_NOT_FOUND"
ESP_ERR_NVS_INVALID_HANDLE == "ESP_ERR_NVS_INVALID_HANDLE"
ESP_ERR_NVS_NOT_ENOUGH_SPACE == "ESP_ERR_NVS_NOT_ENOUGH_SPACE"
ESP_ERR_NVS_NO_FREE_PAGES == "ESP_ERR_NVS_NO_FREE_PAGES"
ESP_ERR_NVS_NEW_VERSION_FOUND == "ESP_ERR_NVS_NEW_VERSION_FOUND"
ESP_ERR_NVS_PART_NOT_FOUND == "ESP_ERR_NVS_PART_NOT_FOUND"
ESP_ERR_NO_MEM == "ESP_ERR_NO_MEM"
ESP_FAIL == "ESP_FAIL"

CONFIG_VERSION_KEY == "CfgVersion"

NoEntry == [none |-> TRUE]
None == [none |-> TRUE]

\* the NVS entry type a variable type is stored as (nvs_set_i8 / _u8 / _str)
KindOf(type) ==
    CASE type = "Bool" -> "i8" [] type = "UChar" -> "u8" [] type = "String" -> "str"

\* the entry nvs_putBool / nvs_putUChar / nvs_putString writes for value v
Encode(type, v) ==
    CASE type = "Bool"   -> [i8 |-> IF v.b THEN 1 ELSE 0]
      [] type = "UChar"  -> [u8 |-> v.n]
      [] type = "String" -> [str |-> v.s]

\* the value nvs_getBool / nvs_getUChar / nvs_getString makes of a read entry
Decode(type, e) ==
    CASE type = "Bool"   -> Boo(e.i8 # 0)
      [] type = "UChar"  -> Num(e.u8)
      [] type = "String" -> Str(e.str)

\* nvs_get_<kind>(nvs_handle(), key, &value): the error code
nvs_get_err(key, kind) ==
    IF _nvs_handle \notin openHandles THEN ESP_ERR_NVS_INVALID_HANDLE
    ELSE IF kind \notin DOMAIN nvs[key] THEN ESP_ERR_NVS_NOT_FOUND
    ELSE ESP_OK

\* nvs_set_<kind>(nvs_handle(), key, value): the error code; spaceOk is whether
\* the partition has room for the entry
nvs_set_err(spaceOk) ==
    IF _nvs_handle \notin openHandles THEN ESP_ERR_NVS_INVALID_HANDLE
    ELSE IF spaceOk THEN ESP_OK
    ELSE ESP_ERR_NVS_NOT_ENOUGH_SPACE

\* the entries after nvs_set_<kind> returned e
nvs_after_set(key, entry, e) ==
    IF e = ESP_OK THEN [nvs EXCEPT ![key] = entry] ELSE nvs

\* the entries after nvs_set_<kind> returned e in an NVS library that keeps an
\* entry of another type under the same key (ESP-IDF before the check of the
\* type of an existing key)
nvs_after_set_kept(key, entry, e) ==
    IF e = ESP_OK
    THEN [nvs EXCEPT ![key] =
            [f \in (DOMAIN nvs[key] \ {"none"}) \cup DOMAIN entry |->
                IF f \in DOMAIN entry THEN entry[f] ELSE nvs[key][f]]]
    ELSE nvs

\* the entries nvs_set_<kind> can leave: the two differ only when the key holds
\* an entry of another type
nvs_set_outcomes(key, entry, e) ==
    {nvs_after_set(key, entry, e), nvs_after_set_kept(key, entry, e)}

\* nvs_commit(nvs_handle()): the error code; flushOk is whether the flush works
nvs_commit_err(flushOk) ==
    IF _nvs_handle \notin openHandles THEN ESP_ERR_NVS_INVALID_HANDLE
    ELSE IF flushOk THEN ESP_OK
    ELSE ESP_FAIL

Call(name, key, e) == [call |-> name, key |-> key, err |-> e]

-----------------------------------------------------------------------------
(* zPrefBase: the typed accessors and commit (zPref.cpp).                  *)

\* nvs_getBool / nvs_getUChar / nvs_getString(key, default_value); mallocOk is
\* whether nvs_getString's malloc(required_size) succeeds
nvs_getT(type, key, default_value, mallocOk) ==
    IF nvs_get_err(key, KindOf(type)) # ESP_OK THEN default_value
    ELSE IF type = "String" /\ ~mallocOk THEN default_value
    ELSE Decode(type, nvs[key])

\* the backend calls nvs_getT issues
nvs_getT_calls(type, key, mallocOk) ==
    LET e == nvs_get_err(key, KindOf(type))
        c == Call("nvs_get_" \o KindOf(type), key, e)
    IN  IF type = "String" /\ e = ESP_OK /\ mallocOk THEN <<c, c>> ELSE <<c>>

\* nvs_putBool / nvs_putUChar / nvs_putString(key, value): the size_t returned
\* when the nvs_set call returned e
nvs_putT(type, value, e) ==
    IF e # ESP_OK THEN 0
    ELSE IF type = "String" THEN Len(value.s)
    ELSE 1

\* zPrefBase::commit(): the backend call it issues (the error is only logged)
commit_calls(flushOk) == <<Call("nvs_commit", "", nvs_commit_err(flushOk))>>

-----------------------------------------------------------------------------
(* zPrefVariable<T> and the registry of zPrefBase (zPrefBase.h).           *)

Decl(key, type, default) == [key |-> key, type |-> type, default |-> default]

\* the derived classes the model runs: their DECLARE_CONFIG_VARIABLE lists
Programs == {
    << Decl("Flag", "Bool", Boo(TRUE)), Decl("Name", "String", Str(<<"a", "b">>)) >>,
    << Decl("Level", "UChar", Num(200)), Decl("Level", "UChar", Num(7)) >> }

Keys == {CONFIG_VERSION_KEY, "Flag", "Name", "Level"}

\* the keys the registry is asked for: each program declares some and not others
AskedKeys == {"Flag", "Name", "Level"}

\* the values Set is called with, per type
SetInputs(type) ==
    CASE type = "Bool"   -> {Boo(TRUE), Boo(FALSE)}
      [] type = "UChar"  -> {Num(1), Num(200)}
      [] type = "String" -> {Str(<<>>), Str(<<"1">>)}

\* the texts FromString and the registry's Set are called with
TextInputs == { <<"1">>, <<>> }

Indices == 1..Len(_variables)

\* the T _current of a variable before initialize() or Set assigned it
Unassigned == [unassigned |-> TRUE]

\* the junk a caller's buffer holds before GetString(buf, len) fills it
FreshBuf == [i \in 1..BufCap |-> "?"]
NoBuf == <<>>

Obs(op, var, key, arg, ret, calls, buf) ==
    [op |-> op, var |-> var, key |-> key, arg |-> arg, ret |-> ret,
     calls |-> calls, buf |-> buf]

\* control is in the application, between two calls
Callable == pc = "idle" /\ Len(_variables) = Len(program)

\* control is in the application or in the OnInit hook, which reads and writes
\* the variables (Get, Set, SetDefault)
HookCallable == pc \in {"idle", "hook"} /\ Len(_variables) = Len(program)

\* zPrefVariable(key, defaultVal, config, g, s) and config.AddVariable(this):
\* the members of the derived class are constructed in declaration order
AddVariable(var) == Append(_variables, var)

DeclareVariable ==
    /\ pc = "idle"
    /\ Len(_variables) < Len(program)
    /\ _variables' = AddVariable(program[Len(_variables) + 1])
    /\ _current' = Append(_current, Unassigned)
    /\ initialized' = Append(initialized, FALSE)
    /\ getterCalls' = Append(getterCalls, 0)
    /\ UNCHANGED <<program, ctrlVars, nvsVars, hook, initLog, obs>>

\* the first registry index whose _key equals key, 0 when there is none
RECURSIVE FindFrom(_, _)
FindFrom(key, i) ==
    IF i > Len(_variables) THEN 0
    ELSE IF _variables[i].key = key THEN i
    ELSE FindFrom(key, i + 1)

\* the lookup as it would be if the scan kept the last variable that matches
Find_LastMatch(key) ==
    IF \E i \in Indices : _variables[i].key = key
    THEN CHOOSE i \in Indices :
            /\ _variables[i].key = key
            /\ \A j \in (i + 1)..Len(_variables) : _variables[j].key # key
    ELSE 0

\* the lookup as it would be if a key no variable has fell through to the last
\* variable
Find_FallThrough(key) ==
    IF FindFrom(key, 1) = 0 THEN Len(_variables) ELSE FindFrom(key, 1)

Find(key) == FindFrom(key, 1)

\* Get(): what it returns, the backend calls it issues, what it assigns
GetValue(i, mallocOk) ==
    IF initialized[i] THEN _current[i]
    ELSE nvs_getT(_variables[i].type, _variables[i].key, _variables[i].default, mallocOk)

GetCalls(i, mallocOk) ==
    IF initialized[i] THEN <<>>
    ELSE nvs_getT_calls(_variables[i].type, _variables[i].key, mallocOk)

\* initialize() as it would be without "initialized = true"
GetEffect_NoFlag(i, mallocOk) ==
    /\ _current' = [_current EXCEPT ![i] = GetValue(i, mallocOk)]
    /\ initialized' = initialized
    /\ getterCalls' = [getterCalls EXCEPT ![i] = IF initialized[i] THEN @ ELSE @ + 1]

GetEffect(i, mallocOk) ==
    /\ _current' = [_current EXCEPT ![i] = GetValue(i, mallocOk)]
    /\ initialized' = [initialized EXCEPT ![i] = TRUE]
    /\ getterCalls' = [getterCalls EXCEPT ![i] = IF initialized[i] THEN @ ELSE @ + 1]

\* the setter closure SETTER_IMPL_<type>: nvs_put<type>, then commit()
SetterRet(i, val, spaceOk) == nvs_putT(_variables[i].type, val, nvs_set_err(spaceOk))

\* the setter closure as it would be if it committed only after a put that
\* succeeded
SetterCalls_CommitOnSuccess(i, spaceOk, flushOk) ==
    << Call("nvs_set_" \o KindOf(_variables[i].type), _variables[i].key,
            nvs_set_err(spaceOk)) >>
    \o (IF nvs_set_err(spaceOk) = ESP_OK THEN commit_calls(flushOk) ELSE <<>>)

SetterCalls(i, spaceOk, flushOk) ==
    << Call("nvs_set_" \o KindOf(_variables[i].type), _variables[i].key,
            nvs_set_err(spaceOk)) >> \o commit_calls(flushOk)

SetterEffect(i, val, spaceOk) ==
    nvs' \in nvs_set_outcomes(_variables[i].key, Encode(_variables[i].type, val),
                              nvs_set_err(spaceOk))

\* Set(val): the setter, then the unconditional update of _current
SetEffect(i, val, spaceOk) ==
    /\ SetterEffect(i, val, spaceOk)
    /\ _current' = [_current EXCEPT ![i] = val]

\* toCharArray(buf, len) of the rendered text val
toCharArray(buf, val, len) ==
    IF len = 0 THEN buf
    ELSE IF Len(val) = 0 THEN [buf EXCEPT ![1] = "NUL"]
    ELSE LET n == IF len - 1 > Len(val) THEN Len(val) ELSE len - 1
         IN  [k \in 1..BufCap |->
                IF k <= n THEN val[k] ELSE IF k = n + 1 THEN "NUL" ELSE buf[k]]

\* GetString(buf, len) of a variable whose value renders as val
GetStringBufRet(val, len) == ~(Len(val) > len)
GetStringBufBuf(buf, val, len) ==
    IF Len(val) > len THEN buf ELSE toCharArray(buf, val, len)

Rendered(i, mallocOk) == StringOf(_variables[i].type, GetValue(i, mallocOk))

\* the outcomes of a backend write or commit that the environment decides:
\* none when the handle is not open (the call fails whatever the flash does)
Outcomes == IF _nvs_handle \in openHandles THEN BOOLEAN ELSE {TRUE}

\* the outcomes of nvs_getString's malloc: it is reached only by the first Get
\* of a String whose size query succeeded
MallocOutcomes(i) ==
    IF /\ ~initialized[i]
       /\ _variables[i].type = "String"
       /\ nvs_get_err(_variables[i].key, "str") = ESP_OK
    THEN BOOLEAN ELSE {TRUE}

\* what no variable / registry call changes
VarFrame == UNCHANGED <<program, _variables, ctrlVars, mounted, flash, openHandles,
                        hook>>

\* obs describes the last variable, registry or End call; initLog the Init in
\* progress or just returned: a call the application makes after Init returned
\* empties it, a call the OnInit hook makes inside Init does not
Observe(o) ==
    /\ obs' = o
    /\ initLog' = IF pc = "hook" THEN initLog ELSE <<>>

\* const T& Get()
GetBody(op, i, key) ==
    \E mallocOk \in MallocOutcomes(i) :
        /\ GetEffect(i, mallocOk)
        /\ Observe(Obs(op, i, key, None, GetValue(i, mallocOk),
                      GetCalls(i, mallocOk), NoBuf))
        /\ UNCHANGED nvs
        /\ VarFrame

\* String GetString()
GetStringBody(op, i, key) ==
    \E mallocOk \in MallocOutcomes(i) :
        /\ GetEffect(i, mallocOk)
        /\ Observe(Obs(op, i, key, None, Str(Rendered(i, mallocOk)),
                      GetCalls(i, mallocOk), NoBuf))
        /\ UNCHANGED nvs
        /\ VarFrame

\* bool GetString(char * const buf, size_t len)
GetStringBufBody(op, i, key, len) ==
    \E mallocOk \in MallocOutcomes(i) :
        /\ GetEffect(i, mallocOk)
        /\ Observe(Obs(op, i, key, Num(len),
                      Boo(GetStringBufRet(Rendered(i, mallocOk), len)),
                      GetCalls(i, mallocOk),
                      GetStringBufBuf(FreshBuf, Rendered(i, mallocOk), len)))
        /\ UNCHANGED nvs
        /\ VarFrame

\* size_t Set(T val), reached directly, from FromString or from the registry
SetBody(op, i, key, arg, val) ==
    \E spaceOk \in Outcomes, flushOk \in Outcomes :
        /\ SetEffect(i, val, spaceOk)
        /\ Observe(Obs(op, i, key, arg, Num(SetterRet(i, val, spaceOk)),
                      SetterCalls(i, spaceOk, flushOk), NoBuf))
        /\ UNCHANGED <<initialized, getterCalls>>
        /\ VarFrame

\* size_t SetDefault()
SetDefaultBody(op, i, key) ==
    \E spaceOk \in Outcomes, flushOk \in Outcomes :
        /\ SetterEffect(i, _variables[i].default, spaceOk)
        /\ Observe(Obs(op, i, key, None,
                      Num(SetterRet(i, _variables[i].default, spaceOk)),
                      SetterCalls(i, spaceOk, flushOk), NoBuf))
        /\ UNCHANGED <<_current, initialized, getterCalls>>
        /\ VarFrame

\* a registry call that found no variable: nothing but the value returned
NotFound(op, key, arg, ret, buf) ==
    /\ Observe(Obs(op, 0, key, arg, ret, <<>>, buf))
    /\ UNCHANGED <<_current, initialized, getterCalls, nvs>>
    /\ VarFrame

Get(i) == HookCallable /\ GetBody("Get", i, _variables[i].key)

GetString(i) == Callable /\ GetStringBody("GetString", i, _variables[i].key)

GetStringBuf(i, len) ==
    Callable /\ GetStringBufBody("GetStringBuf", i, _variables[i].key, len)

Set(i, val) == HookCallable /\ SetBody("Set", i, _variables[i].key, val, val)

SetDefault(i) == HookCallable /\ SetDefaultBody("SetDefault", i, _variables[i].key)

FromString(i, val) ==
    /\ Callable
    /\ SetBody("FromString", i, _variables[i].key, Str(val),
               getValue_as(_variables[i].type, val))

\* zPrefBase::GetString(String key)
RegGetString(key) ==
    /\ Callable
    /\ IF Find(key) = 0
       THEN NotFound("RegGetString", key, None, Str(<<>>), NoBuf)
       ELSE GetStringBody("RegGetString", Find(key), key)

\* zPrefBase::GetString(const char * key, char * buf, size_t len)
RegGetStringBuf(key, len) ==
    /\ Callable
    /\ IF Find(key) = 0
       THEN NotFound("RegGetStringBuf", key, Num(len), Boo(FALSE), FreshBuf)
       ELSE GetStringBufBody("RegGetStringBuf", Find(key), key, len)

\* zPrefBase::Set(key, val), both overloads
RegSet(key, val) ==
    /\ Callable
    /\ IF Find(key) = 0
       THEN NotFound("RegSet", key, Str(val), Num(0), NoBuf)
       ELSE SetBody("RegSet", Find(key), key, Str(val),
                    getValue_as(_variables[Find(key)].type, val))

-----------------------------------------------------------------------------
(* zPref<TDerived>: Init, the OnInit hook, End, Status (zPref.h).          *)

\* zPref(nvs_namespace, currentVersion): the version the derived class passes
CurrentVersion == 2

\* the eStatus values OnInit is taken to return
HookResults == {"eOK", "eFAILED", "eINPROGRESS"}

\* a local of Init outside its scope
NoLocal == "-"

\* nvs_flash_init_partition: the codes it can return; a mounted partition is
\* not initialised again
nvs_flash_init_errs ==
    IF mounted THEN {ESP_OK}
    ELSE CASE flash = "ok"            -> {ESP_OK, ESP_ERR_NO_MEM}
           [] flash = "no_free_pages" -> {ESP_ERR_NVS_NO_FREE_PAGES}
           [] flash = "new_version"   -> {ESP_ERR_NVS_NEW_VERSION_FOUND}
           [] flash = "absent"        -> {ESP_ERR_NVS_PART_NOT_FOUND}

EmptyStore == [k \in Keys |-> NoEntry]

\* the handle nvs_open_from_partition issues: one that is not open
FreshHandle == CHOOSE h \in 1..(MaxHandles + 1) : h \notin openHandles

\* nvs_open_from_partition: the code it returns; roomOk is whether the
\* namespace can be found or created
nvs_open_err(roomOk) ==
    IF Cardinality(openHandles) >= MaxHandles THEN ESP_ERR_NO_MEM
    ELSE IF roomOk THEN ESP_OK
    ELSE ESP_ERR_NVS_NOT_ENOUGH_SPACE

\* nvs_getULong(key, default_value) through the handle h, open being the
\* handles that are open at the call
nvs_getULong(open, h, key, default_value) ==
    IF h \in open /\ "u32" \in DOMAIN nvs[key] THEN nvs[key].u32
    ELSE default_value

\* line 101 as it would be if any failure of the first open led to an erase
NeedsErase_AnyError(e) == e # ESP_OK

NeedsErase(e) ==
    e = ESP_ERR_NVS_NO_FREE_PAGES \/ e = ESP_ERR_NVS_NEW_VERSION_FOUND

\* the schema version a store holds: the u32 entry of the version key, if any
StoredVersionIn(store) ==
    IF "u32" \in DOMAIN store[CONFIG_VERSION_KEY]
    THEN [u32 |-> store[CONFIG_VERSION_KEY].u32]
    ELSE NoEntry

\* what an Init finds when it is called: the stored schema version, the caches
\* of the variables, and whether the call before it was an End() that closed
\* the handle (history, kept in the observation of the call)
Snapshot(store, current, flags, last) ==
    [version |-> StoredVersionIn(store), current |-> current, initialized |-> flags,
     reopened |-> (last.op = "End" /\ last.calls # <<>>)]

\* lines 94-100 as they would be without "status = eINPROGRESS"
Init_Begin_StatusKept ==
    /\ pc = "idle"
    /\ Len(_variables) = Len(program)
    /\ \E e \in nvs_flash_init_errs :
        /\ err' = e
        /\ mounted' = (mounted \/ e = ESP_OK)
        /\ initLog' = <<Call("nvs_flash_init_partition", "", e)>>
    /\ status' = status
    /\ retVal' = "eOK"
    /\ pc' = "Init101"
    /\ obs' = Obs("Init", 0, "", Snapshot(nvs, _current, initialized, obs), None,
                  <<>>, NoBuf)
    /\ UNCHANGED <<_nvs_handle, storedVersion, varVars, nvs, flash, openHandles,
                   getterCalls, hook>>

\* Init, lines 94-100: status, the first nvs_flash_init_partition
Init_Begin ==
    /\ pc = "idle"
    /\ Len(_variables) = Len(program)
    /\ \E e \in nvs_flash_init_errs :
        /\ err' = e
        /\ mounted' = (mounted \/ e = ESP_OK)
        /\ initLog' = <<Call("nvs_flash_init_partition", "", e)>>
    /\ status' = "eINPROGRESS"
    /\ retVal' = "eOK"
    /\ pc' = "Init101"
    /\ obs' = Obs("Init", 0, "", Snapshot(nvs, _current, initialized, obs), None,
                  <<>>, NoBuf)
    /\ UNCHANGED <<_nvs_handle, storedVersion, varVars, nvs, flash, openHandles,
                   getterCalls, hook>>

\* lines 101-105 as they would be if the erase left the entries of the store in place
Init_Erase_KeepsStore ==
    /\ pc = "Init101"
    /\ IF NeedsErase(err)
       THEN \E eraseOk \in BOOLEAN, memOk \in BOOLEAN :
              IF eraseOk
              THEN /\ nvs' = nvs
                   /\ flash' = "ok"
                   /\ err' = IF memOk THEN ESP_OK ELSE ESP_ERR_NO_MEM
                   /\ mounted' = memOk
                   /\ initLog' = initLog \o
                        << Call("nvs_flash_erase_partition", "", ESP_OK),
                           Call("nvs_flash_init_partition", "", err') >>
                   /\ pc' = "Init107"
              ELSE /\ initLog' = Append(initLog,
                                   Call("nvs_flash_erase_partition", "", ESP_FAIL))
                   /\ pc' = "aborted"
                   /\ UNCHANGED <<nvs, flash, err, mounted>>
       ELSE /\ pc' = "Init107"
            /\ UNCHANGED <<nvs, flash, err, mounted, initLog>>
    /\ UNCHANGED <<_nvs_handle, status, retVal, storedVersion, varVars,
                   openHandles, getterCalls, hook, obs>>

\* Init, lines 101-105: erase and retry; ESP_ERROR_CHECK aborts on a failed erase
Init_Erase ==
    /\ pc = "Init101"
    /\ IF NeedsErase(err)
       THEN \E eraseOk \in BOOLEAN, memOk \in BOOLEAN :
              IF eraseOk
              THEN /\ nvs' = EmptyStore
                   /\ flash' = "ok"
                   /\ err' = IF memOk THEN ESP_OK ELSE ESP_ERR_NO_MEM
                   /\ mounted' = memOk
                   /\ initLog' = initLog \o
                        << Call("nvs_flash_erase_partition", "", ESP_OK),
                           Call("nvs_flash_init_partition", "", err') >>
                   /\ pc' = "Init107"
              ELSE /\ initLog' = Append(initLog,
                                   Call("nvs_flash_erase_partition", "", ESP_FAIL))
                   /\ pc' = "aborted"
                   /\ UNCHANGED <<nvs, flash, err, mounted>>
       ELSE /\ pc' = "Init107"
            /\ UNCHANGED <<nvs, flash, err, mounted, initLog>>
    /\ UNCHANGED <<_nvs_handle, status, retVal, storedVersion, varVars,
                   openHandles, getterCalls, hook, obs>>

\* Init, lines 107-127 / 137: the namespace, the stored version, the call of OnInit
Init_Open ==
    /\ pc = "Init107"
    /\ IF err # ESP_OK
       THEN /\ retVal' = "eFAILED"
            /\ pc' = "Init142"
            /\ UNCHANGED <<_nvs_handle, err, storedVersion, openHandles, initLog>>
       ELSE \E roomOk \in BOOLEAN :
              /\ err' = nvs_open_err(roomOk)
              /\ IF err' # ESP_OK
                 THEN /\ retVal' = "eFAILED"
                      /\ pc' = "Init142"
                      /\ initLog' = Append(initLog,
                                      Call("nvs_open_from_partition", "", err'))
                      /\ UNCHANGED <<_nvs_handle, storedVersion, openHandles>>
                 ELSE /\ _nvs_handle' = FreshHandle
                      /\ openHandles' = openHandles \cup {FreshHandle}
                      /\ storedVersion' =
                           nvs_getULong(openHandles', FreshHandle,
                                        CONFIG_VERSION_KEY, 0)
                      /\ initLog' = initLog \o
                           << Call("nvs_open_from_partition", "", ESP_OK),
                              Call("nvs_get_u32", CONFIG_VERSION_KEY,
                                   IF "u32" \in DOMAIN nvs[CONFIG_VERSION_KEY]
                                   THEN ESP_OK ELSE ESP_ERR_NVS_NOT_FOUND),
                              [call |-> "OnInit", stored |-> storedVersion',
                               current |-> CurrentVersion] >>
                      /\ pc' = "hook"
                      /\ UNCHANGED retVal
    /\ UNCHANGED <<status, varVars, nvs, mounted, flash, getterCalls, hook, obs>>

\* lines 127-138 as they would be with the version stored whatever OnInit returns
Init_OnInitReturn_StoreAnyway(r) ==
    /\ pc = "hook"
    /\ retVal' = r
    /\ hook' = [stored |-> storedVersion, current |-> CurrentVersion, result |-> r]
    /\ IF storedVersion # CurrentVersion
       THEN \E spaceOk \in Outcomes, flushOk \in Outcomes :
              /\ nvs' = nvs_after_set(CONFIG_VERSION_KEY, [u32 |-> CurrentVersion],
                                      nvs_set_err(spaceOk))
              /\ initLog' = initLog \o
                   << Call("nvs_set_u32", CONFIG_VERSION_KEY, nvs_set_err(spaceOk)) >>
                   \o commit_calls(flushOk)
       ELSE UNCHANGED <<nvs, initLog>>
    /\ pc' = "Init142"
    /\ UNCHANGED <<_nvs_handle, status, err, storedVersion, varVars, mounted,
                   flash, openHandles, getterCalls, obs>>

\* lines 127-138 as they would be with the version stored after every
\* successful OnInit, also when the versions match
Init_OnInitReturn_StoreOnMatch(r) ==
    /\ pc = "hook"
    /\ retVal' = r
    /\ hook' = [stored |-> storedVersion, current |-> CurrentVersion, result |-> r]
    /\ IF r = "eOK"
       THEN \E spaceOk \in Outcomes, flushOk \in Outcomes :
              /\ nvs' = nvs_after_set(CONFIG_VERSION_KEY, [u32 |-> CurrentVersion],
                                      nvs_set_err(spaceOk))
              /\ initLog' = initLog \o
                   << Call("nvs_set_u32", CONFIG_VERSION_KEY, nvs_set_err(spaceOk)) >>
                   \o commit_calls(flushOk)
       ELSE UNCHANGED <<nvs, initLog>>
    /\ pc' = "Init142"
    /\ UNCHANGED <<_nvs_handle, status, err, storedVersion, varVars, mounted,
                   flash, openHandles, getterCalls, obs>>

\* Init, lines 127-138: OnInit returns r; the version is stored after a
\* successful migration
Init_OnInitReturn(r) ==
    /\ pc = "hook"
    /\ retVal' = r
    /\ hook' = [stored |-> storedVersion, current |-> CurrentVersion, result |-> r]
    /\ IF storedVersion # CurrentVersion /\ r = "eOK"
       THEN \E spaceOk \in Outcomes, flushOk \in Outcomes :
              /\ nvs' \in nvs_set_outcomes(CONFIG_VERSION_KEY,
                                           [u32 |-> CurrentVersion],
                                           nvs_set_err(spaceOk))
              /\ initLog' = initLog \o
                   << Call("nvs_set_u32", CONFIG_VERSION_KEY, nvs_set_err(spaceOk)) >>
                   \o commit_calls(flushOk)
       ELSE UNCHANGED <<nvs, initLog>>
    /\ pc' = "Init142"
    /\ UNCHANGED <<_nvs_handle, status, err, storedVersion, varVars, mounted,
                   flash, openHandles, getterCalls, obs>>

\* lines 142-143 as they would be with status = retVal
Init_Return_StatusIsRetVal ==
    /\ pc = "Init142"
    /\ status' = retVal
    /\ err' = NoLocal
    /\ storedVersion' = NoLocal
    /\ pc' = "idle"
    /\ UNCHANGED <<_nvs_handle, retVal, varVars, nvsVars, histVars>>

\* lines 142-143 as they would be if a failed Init marked the variables as
\* not read
Init_Return_InvalidatesOnFailure ==
    /\ pc = "Init142"
    /\ status' = IF retVal = "eOK" THEN "eOK" ELSE "eFAILED"
    /\ initialized' = IF retVal = "eOK" THEN initialized
                      ELSE [i \in DOMAIN initialized |-> FALSE]
    /\ err' = NoLocal
    /\ storedVersion' = NoLocal
    /\ pc' = "idle"
    /\ UNCHANGED <<_nvs_handle, retVal, program, _variables, _current, nvsVars,
                   histVars>>

\* Init, lines 142-143: status and the value returned (kept in retVal)
Init_Return ==
    /\ pc = "Init142"
    /\ status' = IF retVal = "eOK" THEN "eOK" ELSE "eFAILED"
    /\ err' = NoLocal
    /\ storedVersion' = NoLocal
    /\ pc' = "idle"
    /\ UNCHANGED <<_nvs_handle, retVal, varVars, nvsVars, histVars>>

\* End() as it would be without the test of the handle
End_NoGuard ==
    /\ pc = "idle"
    /\ Len(_variables) = Len(program)
    /\ openHandles' = openHandles \ {_nvs_handle}
    /\ _nvs_handle' = 0
    /\ obs' = Obs("End", 0, "", None, None,
                  <<[call |-> "nvs_close", handle |-> _nvs_handle,
                     open |-> _nvs_handle \in openHandles]>>, NoBuf)
    /\ initLog' = <<>>
    /\ UNCHANGED <<status, pc, err, retVal, storedVersion, varVars, nvs, mounted,
                   flash, getterCalls, hook>>

\* End() as it would be if closing the handle also invalidated the caches
End_ForgetsCaches ==
    /\ pc = "idle"
    /\ Len(_variables) = Len(program)
    /\ openHandles' = openHandles \ {_nvs_handle}
    /\ _nvs_handle' = 0
    /\ initialized' = [i \in DOMAIN initialized |-> FALSE]
    /\ obs' = Obs("End", 0, "", None, None,
                  IF _nvs_handle # 0
                  THEN <<[call |-> "nvs_close", handle |-> _nvs_handle,
                          open |-> _nvs_handle \in openHandles]>>
                  ELSE <<>>, NoBuf)
    /\ initLog' = <<>>
    /\ UNCHANGED <<status, pc, err, retVal, storedVersion, program, _variables,
                   _current, nvs, mounted, flash, getterCalls, hook>>

\* void End()
End ==
    /\ pc = "idle"
    /\ Len(_variables) = Len(program)
    /\ IF _nvs_handle # 0
       THEN /\ openHandles' = openHandles \ {_nvs_handle}
            /\ _nvs_handle' = 0
            /\ obs' = Obs("End", 0, "", None, None,
                          <<[call |-> "nvs_close", handle |-> _nvs_handle,
                             open |-> _nvs_handle \in openHandles]>>, NoBuf)
       ELSE /\ obs' = Obs("End", 0, "", None, None, <<>>, NoBuf)
            /\ UNCHANGED <<_nvs_handle, openHandles>>
    /\ initLog' = <<>>
    /\ UNCHANGED <<status, pc, err, retVal, storedVersion, varVars, nvs, mounted,
                   flash, getterCalls, hook>>

\* eStatus Status()
Status == status

-----------------------------------------------------------------------------
(* The specification.                                                      *)

\* what the flash holds from earlier boots
OlderStore(v) ==
    [EmptyStore EXCEPT ![CONFIG_VERSION_KEY] = [u32 |-> v],
                       !["Flag"] = [i8 |-> 0],
                       !["Level"] = [u8 |-> 1],
                       !["Name"] = [str |-> <<"1">>]]

InitialStores == {EmptyStore, OlderStore(1), OlderStore(CurrentVersion)}

\* the derived classes of the life-cycle specification: one variable of each type
LifecyclePrograms == {
    << Decl("Flag", "Bool", Boo(TRUE)) >>,
    << Decl("Level", "UChar", Num(200)) >>,
    << Decl("Name", "String", Str(<<"a", "b">>)) >> }

\* the state after the constructor zPref(nvs_namespace, currentVersion), before
\* the members of the derived class are constructed
Constructed ==
    /\ _variables = <<>>
    /\ _current = <<>>
    /\ initialized = <<>>
    /\ _nvs_handle = 0
    /\ status = "eNOTINITIALIZED"
    /\ pc = "idle"
    /\ err = NoLocal
    /\ retVal = NoLocal
    /\ storedVersion = NoLocal
    /\ mounted = FALSE
    /\ openHandles = {}
    /\ getterCalls = <<>>
    /\ hook = None
    /\ initLog = <<>>
    /\ obs = Obs("none", 0, "", None, None, <<>>, NoBuf)

Init ==
    /\ program \in LifecyclePrograms
    /\ flash \in {"ok", "no_free_pages", "new_version", "absent"}
    /\ nvs \in IF flash = "absent" THEN {EmptyStore} ELSE InitialStores
    /\ Constructed

\* the life cycle of the controller and the calls on a variable
Next ==
    \/ DeclareVariable
    \/ \E i \in Indices : Get(i)
    \/ \E i \in Indices : GetString(i)
    \/ \E i \in Indices : \E val \in SetInputs(_variables[i].type) : Set(i, val)
    \/ \E i \in Indices : SetDefault(i)
    \/ \E i \in Indices, val \in TextInputs : FromString(i, val)
    \/ Init_Begin
    \/ Init_Erase
    \/ Init_Open
    \/ \E r \in HookResults : Init_OnInitReturn(r)
    \/ Init_Return
    \/ End

Spec == Init /\ [][Next]_vars

\* the log of an Init that found the current version stored and whose OnInit
\* returned eOK at once
ReadyLog ==
    << Call("nvs_flash_init_partition", "", ESP_OK),
       Call("nvs_open_from_partition", "", ESP_OK),
       Call("nvs_get_u32", CONFIG_VERSION_KEY, ESP_OK),
       [call |-> "OnInit", stored |-> CurrentVersion, current |-> CurrentVersion] >>

\* the controller after that Init: Ready
Ready ==
    /\ _nvs_handle = 1
    /\ openHandles = {1}
    /\ mounted = TRUE
    /\ flash = "ok"
    /\ status = "eOK"
    /\ retVal = "eOK"
    /\ hook = [stored |-> CurrentVersion, current |-> CurrentVersion, result |-> "eOK"]
    /\ initLog = ReadyLog
    /\ obs = Obs("Init", 0, "",
                 Snapshot(OlderStore(CurrentVersion),
                          [i \in 1..Len(program) |-> Unassigned],
                          [i \in 1..Len(program) |-> FALSE],
                          Obs("none", 0, "", None, None, <<>>, NoBuf)),
                 None, <<>>, NoBuf)
    /\ nvs \in {OlderStore(CurrentVersion),
                [EmptyStore EXCEPT ![CONFIG_VERSION_KEY] = [u32 |-> CurrentVersion]]}

\* the controller before its first Init
NotOpen ==
    /\ _nvs_handle = 0
    /\ openHandles = {}
    /\ mounted = FALSE
    /\ flash = "ok"
    /\ status = "eNOTINITIALIZED"
    /\ retVal = NoLocal
    /\ hook = None
    /\ initLog = <<>>
    /\ obs = Obs("none", 0, "", None, None, <<>>, NoBuf)
    /\ nvs = OlderStore(CurrentVersion)

\* the registry of a derived class: under construction, before the members
\* are constructed and the controller is opened, or constructed, its variables
\* not yet read, under a controller that is Ready
InitRegistry ==
    /\ program \in Programs
    /\ \/ /\ NotOpen
          /\ _variables = <<>>
          /\ _current = <<>>
          /\ initialized = <<>>
          /\ getterCalls = <<>>
       \/ /\ Ready
          /\ _variables = program
          /\ _current = [i \in 1..Len(program) |-> Unassigned]
          /\ initialized = [i \in 1..Len(program) |-> FALSE]
          /\ getterCalls = [i \in 1..Len(program) |-> 0]
    /\ pc = "idle"
    /\ err = NoLocal
    /\ storedVersion = NoLocal

NextRegistry ==
    \/ DeclareVariable
    \/ \E i \in Indices : Get(i)
    \/ \E i \in Indices : \E val \in SetInputs(_variables[i].type) : Set(i, val)
    \/ \E i \in Indices : SetDefault(i)
    \/ \E key \in AskedKeys : RegGetString(key)
    \/ \E key \in AskedKeys, len \in 0..BufCap : RegGetStringBuf(key, len)
    \/ \E key \in AskedKeys, val \in TextInputs : RegSet(key, val)

SpecRegistry == InitRegistry /\ [][NextRegistry]_vars

\* the texts FromString is called with in the codec specification
CodecTexts == {
    <<"t", "r", "u", "e">>, <<"1">>, <<"T", "r", "u", "e">>,
    <<"T", "R", "U", "E">>, <<"y", "e", "s">>, <<>>,
    <<"0">>, <<"f", "a", "l", "s", "e">>, <<"t", "R", "U", "E">>,
    <<"t", "r", "u", "e", " ">>, <<" ", "1">>, <<"1", "1">>, <<"0", "1">>,
    <<"1", "0">>, <<"0", "x", "1", "F">>, <<"0", "1", "0">>, <<"0", "8">>,
    <<"2", "5", "6">>, <<"-", "1">>, <<"+", "7">>, <<"9", "a">>, <<"a">> }

\* the values Set is called with in the codec specification
CodecValues(type) ==
    CASE type = "Bool"   -> {Boo(TRUE), Boo(FALSE)}
      [] type = "UChar"  -> {Num(0), Num(1), Num(8), Num(64), Num(99), Num(100),
                             Num(255)}
      [] type = "String" -> {Str(<<>>), Str(<<"1">>), Str(<<" ", "a">>),
                             Str(<<"0", "1", "0">>)}

\* one constructed variable of each type under a controller that is not open
InitCodec ==
    /\ program \in LifecyclePrograms
    /\ _variables = program
    /\ _current = [i \in 1..Len(program) |-> Unassigned]
    /\ initialized = [i \in 1..Len(program) |-> FALSE]
    /\ getterCalls = [i \in 1..Len(program) |-> 0]
    /\ pc = "idle"
    /\ err = NoLocal
    /\ storedVersion = NoLocal
    /\ NotOpen

\* the calls that parse and render; the last is FromString(GetString())
NextCodec ==
    \/ \E i \in Indices : Get(i)
    \/ \E i \in Indices : GetString(i)
    \/ \E i \in Indices : \E val \in CodecValues(_variables[i].type) : Set(i, val)
    \/ \E i \in Indices, val \in CodecTexts : FromString(i, val)
    \/ \E i \in Indices :
          obs.op = "GetString" /\ obs.var = i /\ FromString(i, obs.ret.s)

SpecCodec == InitCodec /\ [][NextCodec]_vars

\* a derived class that declares a variable whose name is the version key
CollisionPrograms == { << Decl(CONFIG_VERSION_KEY, "UChar", Num(7)) >> }

InitCollision ==
    /\ program \in CollisionPrograms
    /\ flash \in {"ok", "no_free_pages"}
    /\ nvs \in InitialStores
    /\ Constructed

\* the life cycle of the controller of such a class
SpecCollision == InitCollision /\ [][Next]_vars

-----------------------------------------------------------------------------
(* The claims.                                                             *)

\* Init has just returned: its log is still there (any later call empties it)
JustReturned == pc = "idle" /\ initLog # <<>>

\* the entries of a log that are calls of the named function
CallsOf(log, name) == SelectSeq(log, LAMBDA c : c.call = name)

\* C1: Set(v) immediately followed by Get() on the same variable returns v, in
\* every reachable state and whatever the backend write and commit of Set did.
C1_SetThenGetReturnsValue ==
    [][ (obs.op = "Set" /\ obs'.op = "Get" /\ obs'.var = obs.var)
            => obs'.ret = obs.arg ]_vars

\* the calls of one variable that read it
ReadOps == {"Get", "GetString"}

\* the value a backend read of variable i yields when it issues the calls cs
ReadYields(i, cs) ==
    IF /\ \A k \in 1..Len(cs) : cs[k].err = ESP_OK
       /\ (_variables[i].type = "String" => Len(cs) = 2)
    THEN Decode(_variables[i].type, nvs[_variables[i].key])
    ELSE _variables[i].default

\* C2: constructing a variable performs no backend access; the getter closure
\* runs at most once per variable, on its first Get, which caches the stored
\* value or, when the read fails, the default; a later Get returns the cached
\* value without any backend call, whatever the store holds by then; Set,
\* SetDefault and FromString never run the getter.
C2_LazyInitReadsOnce ==
    /\ [](\A i \in Indices :
            /\ getterCalls[i] <= 1
            /\ (getterCalls[i] = 1) = initialized[i])
    /\ [][ /\ Len(_variables') > Len(_variables) =>
                /\ nvs' = nvs /\ obs' = obs /\ initLog' = initLog
                /\ getterCalls'[Len(_variables')] = 0
                /\ ~initialized'[Len(_variables')]
           /\ \A i \in Indices :
                /\ (obs' # obs /\ obs'.op \in ReadOps /\ obs'.var = i /\ initialized[i]) =>
                      /\ obs'.calls = <<>>
                      /\ _current'[i] = _current[i]
                      /\ obs'.op = "Get" => obs'.ret = _current[i]
                      /\ getterCalls' = getterCalls
                      /\ nvs' = nvs
                /\ (obs' # obs /\ obs'.op \in ReadOps /\ obs'.var = i /\ ~initialized[i]) =>
                      /\ obs'.calls # <<>>
                      /\ \A k \in 1..Len(obs'.calls) :
                            obs'.calls[k].call = "nvs_get_" \o KindOf(_variables[i].type)
                      /\ getterCalls'[i] = 1
                      /\ _current'[i] = ReadYields(i, obs'.calls)
                      /\ obs'.op = "Get" => obs'.ret = _current'[i]
                      /\ nvs' = nvs
                /\ (obs' # obs /\ obs'.op \notin ReadOps) => getterCalls' = getterCalls
         ]_vars

\* C2, its case: a variable read before, whose stored value has since become
\* another one, is read again: no backend call, the cached value
C2_Witness ==
    /\ obs.op = "Get"
    /\ obs.calls = <<>>
    /\ \E i \in Indices :
         /\ obs.var = i
         /\ _nvs_handle \in openHandles
         /\ nvs_get_err(_variables[i].key, KindOf(_variables[i].type)) = ESP_OK
         /\ Decode(_variables[i].type, nvs[_variables[i].key]) # _current[i]
         /\ _current[i] # _variables[i].default
         /\ obs.ret = _current[i]

\* OnInit has returned in the Init in progress or just returned, so that hook
\* describes that call
HookDone ==
    /\ pc = "Init142" \/ JustReturned
    /\ CallsOf(initLog, "OnInit") # <<>>

\* the step of Init that opens the namespace and enters OnInit
EntersHook == pc = "Init107" /\ pc' = "hook"

\* the step of Init in which OnInit returns
LeavesHook == pc = "hook" /\ pc' = "Init142"

\* C3: when Init found a stored version other than the current one and OnInit
\* returned eOK, then on return from Init the version key holds the current
\* version, the commit has succeeded and Status() is eOK.
C3_VersionStoredAfterMigration ==
    (JustReturned /\ HookDone /\ hook.stored # hook.current /\ hook.result = "eOK")
    => /\ nvs[CONFIG_VERSION_KEY] = [u32 |-> CurrentVersion]
       /\ \E k \in 1..Len(initLog) :
            initLog[k].call = "nvs_commit" /\ initLog[k].err = ESP_OK
       /\ Status = "eOK"

\* C4: when OnInit does not return eOK, Init does not write the version key and
\* Status() is eFAILED once Init has returned; the next Init that opens the
\* namespace calls OnInit with the same stored version again.
C4_FailedMigrationKeepsVersion ==
    /\ []((HookDone /\ hook.result # "eOK") =>
            /\ CallsOf(initLog, "nvs_set_u32") = <<>>
            /\ JustReturned => (Status = "eFAILED" /\ retVal = hook.result))
    /\ [][ /\ (LeavesHook /\ hook'.result # "eOK") =>
                nvs'[CONFIG_VERSION_KEY] = nvs[CONFIG_VERSION_KEY]
           /\ (EntersHook /\ hook # None /\ hook.result # "eOK") =>
                /\ storedVersion' = hook.stored
                /\ initLog'[Len(initLog')] =
                     [call |-> "OnInit", stored |-> hook.stored,
                      current |-> CurrentVersion]
         ]_vars

\* C4, its case: after a migration that failed and End(), the next Init is in
\* OnInit with the stored version of the failed attempt
C4_Witness ==
    /\ pc = "hook"
    /\ hook # None
    /\ hook.result = "eFAILED"
    /\ hook.stored # hook.current
    /\ storedVersion = hook.stored
    /\ openHandles = {_nvs_handle}

\* C5: every Init that opens the namespace calls OnInit exactly once; after an
\* Init whose OnInit returned eOK on a version mismatch, End() and a new Init
\* read the current version, OnInit is called once with equal arguments and the
\* version key is not written.
C5_MigrationRunsOnce ==
    /\ []((pc \in {"Init142", "idle"}
           /\ \E k \in 1..Len(initLog) :
                initLog[k] = Call("nvs_open_from_partition", "", ESP_OK))
          => Len(CallsOf(initLog, "OnInit")) = 1)
    /\ [][ (EntersHook /\ openHandles = {} /\ hook # None
            /\ hook.result = "eOK" /\ hook.stored # hook.current)
           => /\ storedVersion' = CurrentVersion
              /\ initLog'[Len(initLog')] =
                   [call |-> "OnInit", stored |-> CurrentVersion,
                    current |-> CurrentVersion]
         ]_vars

\* C6: when the stored version is the current one, Init calls
\* OnInit(storedVersion, currentVersion) once and itself neither writes the
\* version key nor commits, whatever OnInit returns.
C6_MatchingVersionNotRewritten ==
    /\ []((pc \in {"hook", "Init142", "idle"}
           /\ \E k \in 1..Len(initLog) :
                initLog[k] = [call |-> "OnInit", stored |-> CurrentVersion,
                              current |-> CurrentVersion])
          => /\ Len(CallsOf(initLog, "OnInit")) = 1
             /\ CallsOf(initLog, "nvs_set_u32") = <<>>
             /\ CallsOf(initLog, "nvs_commit") = <<>>)
    /\ [][ /\ (pc = "Init107" /\ _nvs_handle' # _nvs_handle
               /\ nvs[CONFIG_VERSION_KEY] = [u32 |-> CurrentVersion])
              => /\ pc' = "hook"
                 /\ initLog'[Len(initLog')] =
                      [call |-> "OnInit", stored |-> CurrentVersion,
                       current |-> CurrentVersion]
           /\ (LeavesHook /\ storedVersion = CurrentVersion)
              => /\ nvs' = nvs
                 /\ initLog' = initLog
                 /\ retVal' = hook'.result
         ]_vars

\* C6, its case: Init has returned after an OnInit that was called with equal
\* versions and failed; the version key is as it was
C6_Witness ==
    /\ JustReturned
    /\ HookDone
    /\ hook.stored = hook.current
    /\ hook.result = "eFAILED"
    /\ Status = "eFAILED"
    /\ nvs[CONFIG_VERSION_KEY] = [u32 |-> CurrentVersion]

\* the calls of the Init in progress or just returned that open and erase the
\* partition
PartitionOpens == CallsOf(initLog, "nvs_flash_init_partition")
PartitionErases == CallsOf(initLog, "nvs_flash_erase_partition")

\* Init is past its lines 100-105
PastErase == pc \in {"Init107", "hook", "Init142"} \/ JustReturned

\* C7: within one Init the partition is erased only when the first partition
\* open reported no free pages or a new version, at most once, and the open is
\* then retried exactly once (a failed erase aborts the program instead); when
\* the last partition open failed, Init returns eFAILED, Status() is eFAILED,
\* the namespace is not opened and OnInit is not called.
C7_EraseOnceRetryOnce ==
    /\ [](/\ Len(PartitionErases) <= 1
          /\ PartitionErases # <<>> =>
                /\ initLog[1].call = "nvs_flash_init_partition"
                /\ initLog[1].err \in {ESP_ERR_NVS_NO_FREE_PAGES,
                                       ESP_ERR_NVS_NEW_VERSION_FOUND}
                /\ initLog[2].call = "nvs_flash_erase_partition"
          /\ PastErase =>
                /\ (PartitionErases # <<>>) =
                     (initLog[1].err \in {ESP_ERR_NVS_NO_FREE_PAGES,
                                          ESP_ERR_NVS_NEW_VERSION_FOUND})
                /\ Len(PartitionOpens) = IF PartitionErases # <<>> THEN 2 ELSE 1
                /\ PartitionErases # <<>> =>
                     initLog[3].call = "nvs_flash_init_partition"
          /\ pc = "aborted" =>
                /\ PartitionErases = <<Call("nvs_flash_erase_partition", "", ESP_FAIL)>>
                /\ Len(PartitionOpens) = 1
          /\ ((pc = "Init142" \/ JustReturned)
              /\ PartitionOpens[Len(PartitionOpens)].err # ESP_OK) =>
                /\ retVal = "eFAILED"
                /\ CallsOf(initLog, "nvs_open_from_partition") = <<>>
                /\ CallsOf(initLog, "OnInit") = <<>>
                /\ JustReturned => Status = "eFAILED")
    /\ [][ (pc = "Init107" /\ err # ESP_OK) =>
              /\ pc' = "Init142"
              /\ _nvs_handle' = _nvs_handle
              /\ openHandles' = openHandles
         ]_vars

\* C7, its case: Init has returned after an erase whose retry failed as well
C7_Witness ==
    /\ JustReturned
    /\ Len(PartitionErases) = 1
    /\ Len(PartitionOpens) = 2
    /\ PartitionOpens[2].err # ESP_OK
    /\ Status = "eFAILED"
    /\ _nvs_handle = 0

\* C8: Status() is eNOTINITIALIZED until the first Init, eINPROGRESS all through
\* an Init (OnInit included), and eOK or eFAILED once an Init has returned; it
\* is eOK exactly when Init returned eOK, which is exactly when the partition
\* open, the namespace open and OnInit succeeded.
C8_StatusFollowsInit ==
    /\ pc \in {"Init101", "Init107", "hook", "Init142"} => Status = "eINPROGRESS"
    /\ pc = "idle" =>
         /\ Status \in {"eNOTINITIALIZED", "eOK", "eFAILED"}
         /\ (Status = "eNOTINITIALIZED") = (retVal = NoLocal)
         /\ (Status = "eOK") = (retVal = "eOK")
    /\ JustReturned =>
         (Status = "eOK") =
            /\ PartitionOpens[Len(PartitionOpens)].err = ESP_OK
            /\ CallsOf(initLog, "nvs_open_from_partition") =
                  <<Call("nvs_open_from_partition", "", ESP_OK)>>
            /\ HookDone
            /\ hook.result = "eOK"

\* C8, its case: a second Init is in OnInit, which has called Set: the status
\* that was eOK is eINPROGRESS
C8_Witness ==
    /\ pc = "hook"
    /\ obs.op = "Set"
    /\ hook # None
    /\ hook.result = "eOK"
    /\ Status = "eINPROGRESS"

\* the step is a call of End(): it changes the observation, or it changes
\* nothing at all
EndStep == obs' # obs /\ obs'.op = "End"

\* C9: after End() the handle is 0; End() closes the handle exactly when it is
\* not 0, a handle that is open; an End() that follows an End() closes nothing.
C9_EndIdempotent ==
    /\ [](obs.op = "End" =>
            /\ _nvs_handle = 0
            /\ \A k \in 1..Len(obs.calls) :
                 obs.calls[k].handle # 0 /\ obs.calls[k].open)
    /\ [][ EndStep =>
              /\ _nvs_handle' = 0
              /\ obs'.calls = IF _nvs_handle # 0
                              THEN <<[call |-> "nvs_close", handle |-> _nvs_handle,
                                      open |-> TRUE]>>
                              ELSE <<>>
              /\ openHandles' = openHandles \ {_nvs_handle}
              /\ obs.op = "End" => (obs'.calls = <<>> /\ openHandles' = openHandles)
         ]_vars

\* C9, its case: an End() on a controller that an earlier End() has closed
\* after a successful Init
C9_Witness ==
    /\ obs.op = "End"
    /\ obs.calls = <<>>
    /\ Status = "eOK"
    /\ _nvs_handle = 0
    /\ openHandles = {}

\* the registry calls
RegistryOps == {"RegSet", "RegGetString", "RegGetStringBuf"}

\* no registered variable has the key
Unknown(key) == \A i \in Indices : _variables[i].key # key

\* C10: for a key no registered variable has, the registry's Set returns 0,
\* GetString the empty text and GetString(key, buf, len) false; no variable's
\* cached value or initialized flag changes, the buffer is as it was, and there
\* is no backend read, write or commit.
C10_UnknownKeyNoEffect ==
    [][ (obs' # obs /\ obs'.op \in RegistryOps /\ Unknown(obs'.key)) =>
           /\ obs'.op = "RegSet" => obs'.ret = Num(0)
           /\ obs'.op = "RegGetString" => obs'.ret = Str(<<>>)
           /\ obs'.op = "RegGetStringBuf" =>
                 (obs'.ret = Boo(FALSE) /\ obs'.buf = FreshBuf)
           /\ obs'.calls = <<>>
           /\ UNCHANGED <<_current, initialized, getterCalls, nvs>>
      ]_vars

\* C10, its case: GetString(key, buf, len) for an unknown key, after a variable
\* has been read
C10_Witness ==
    /\ obs.op = "RegGetStringBuf"
    /\ Unknown(obs.key)
    /\ obs.arg = Num(BufCap)
    /\ obs.ret = Boo(FALSE)
    /\ obs.buf = FreshBuf
    /\ \E i \in Indices : initialized[i]

\* a text is canonical for a type when rendering the value parsed from it gives
\* the text back
Canonical(type, text) == StringOf(type, getValue_as(type, text)) = text

\* C11: for a registered key, the registry's Set(key, text) with a canonical
\* text, immediately followed by the registry's GetString(key), returns that
\* text, whether the variable was read before or not and whether the backend
\* write succeeded or not.
C11_RegistrySetThenGetString ==
    [][ (/\ obs.op = "RegSet" /\ obs.var # 0
         /\ Canonical(_variables[obs.var].type, obs.arg.s)
         /\ obs'.op = "RegGetString" /\ obs'.key = obs.key)
        => obs'.ret = obs.arg ]_vars

\* some registered variable has the key; the earliest registered one that has
Known(key) == \E i \in Indices : _variables[i].key = key
Earliest(key) ==
    CHOOSE i \in Indices :
        _variables[i].key = key /\ \A j \in 1..(i - 1) : _variables[j].key # key

\* C12: the registry holds the variables in declaration order, a duplicate key
\* included, and the order never changes; a registry call acts on the earliest
\* registered variable that has the key: no other variable's cached value,
\* initialized flag or getter is touched.
C12_FirstMatchWins ==
    /\ [](_variables = SubSeq(program, 1, Len(_variables)))
    /\ [][ /\ Len(_variables') # Len(_variables) =>
                _variables' = Append(_variables, program[Len(_variables) + 1])
           /\ (obs' # obs /\ obs'.op \in RegistryOps /\ Known(obs'.key)) =>
                /\ obs'.var = Earliest(obs'.key)
                /\ \A j \in Indices \ {Earliest(obs'.key)} :
                      /\ _current'[j] = _current[j]
                      /\ initialized'[j] = initialized[j]
                      /\ getterCalls'[j] = getterCalls[j]
                /\ obs'.op = "RegSet" =>
                      _current'[Earliest(obs'.key)] =
                         getValue_as(_variables[Earliest(obs'.key)].type, obs'.arg.s)
                /\ obs'.op = "RegGetString" =>
                      obs'.ret = Str(StringOf(_variables[Earliest(obs'.key)].type,
                                              _current'[Earliest(obs'.key)]))
         ]_vars

\* C12, its case: two variables share a key, the later one has been read
\* directly, and the registry's Set on the key has changed the earlier one only
C12_Witness ==
    /\ Len(_variables) = 2
    /\ _variables[1].key = _variables[2].key
    /\ obs.op = "RegSet"
    /\ obs.var = 1
    /\ initialized[2]
    /\ _current[1] = getValue_as(_variables[1].type, obs.arg.s)
    /\ _current[2] # _current[1]

\* the text GetString renders of the variable the last call was about
RenderedNow == StringOf(_variables[obs.var].type, _current[obs.var])

\* C13: GetString(buf, len) returns false and leaves buf as it was whenever
\* the rendered text is longer than len; whenever it returns true, buf holds
\* the whole rendered text, and nothing is written past len bytes.
C13_BufferHoldsWholeText ==
    (obs.op = "RegGetStringBuf" /\ obs.var # 0) =>
        /\ Len(RenderedNow) > obs.arg.n => obs.ret = Boo(FALSE)
        /\ obs.ret = Boo(FALSE) => obs.buf = FreshBuf
        /\ obs.ret = Boo(TRUE) =>
              \A k \in 1..Len(RenderedNow) : obs.buf[k] = RenderedNow[k]
        /\ \A k \in (obs.arg.n + 1)..BufCap : obs.buf[k] = FreshBuf[k]

\* C14: SetDefault() leaves the cached value equal to the default, and a Get()
\* that immediately follows SetDefault() on the same variable returns the
\* default, whatever the variable held before.
C14_SetDefaultUpdatesCache ==
    [][ /\ (obs' # obs /\ obs'.op = "SetDefault") =>
              _current'[obs'.var] = _variables[obs'.var].default
        /\ (obs.op = "SetDefault" /\ obs'.op = "Get" /\ obs'.var = obs.var) =>
              obs'.ret = _variables[obs.var].default
      ]_vars

\* the calls that store a value given by the caller
WriteOps == {"Set", "FromString", "RegSet"}

\* C15: Set(v) returns a value other than 0 exactly when the backend write of
\* v succeeded, for every type and every value, the empty text included.
C15_SetReturnsNonZeroIffWritten ==
    (obs.op \in WriteOps /\ obs.var # 0) =>
        /\ obs.calls[1].call = "nvs_set_" \o KindOf(_variables[obs.var].type)
        /\ (obs.ret.n # 0) = (obs.calls[1].err = ESP_OK)

\* the calls of a variable that run its setter closure
SetterOps == {"Set", "SetDefault", "FromString"}

\* the value the last call handed to the setter closure
ValueWritten ==
    CASE obs.op = "Set"        -> obs.arg
      [] obs.op = "SetDefault" -> _variables[obs.var].default
      [] obs.op = "FromString" -> getValue_as(_variables[obs.var].type, obs.arg.s)

\* C16: Set, SetDefault and FromString issue exactly one backend put for the
\* key of the variable and then exactly one commit, whether the put succeeded
\* or not; the value returned is decided by the put alone, not by the commit.
C16_OnePutThenOneCommit ==
    obs.op \in SetterOps =>
        /\ Len(obs.calls) = 2
        /\ obs.calls[1].call = "nvs_set_" \o KindOf(_variables[obs.var].type)
        /\ obs.calls[1].key = _variables[obs.var].key
        /\ obs.calls[2].call = "nvs_commit"
        /\ obs.ret.n = IF obs.calls[1].err # ESP_OK THEN 0
                       ELSE IF _variables[obs.var].type = "String"
                            THEN Len(ValueWritten.s)
                            ELSE 1

\* C16, its case: the put of a FromString succeeded and the commit failed; the
\* caller gets the result of the put
C16_Witness ==
    /\ obs.op = "FromString"
    /\ obs.calls[1].err = ESP_OK
    /\ obs.calls[2].err = ESP_FAIL
    /\ obs.ret = Num(1)

\* C17: FromString(GetString()) leaves the value of a boolean, integer or
\* text variable as it was: the text rendered of the value parses to the value,
\* and the Get() that follows returns it.
C17_FromStringOfGetString ==
    /\ [](\A n \in 0..(UCharMod - 1) :
            getValue_as("UChar", StringOf("UChar", Num(n))) = Num(n))
    /\ [](\A b \in BOOLEAN :
            getValue_as("Bool", StringOf("Bool", Boo(b))) = Boo(b))
    /\ [][ /\ (/\ obs.op = "GetString" /\ obs'.op = "FromString"
                /\ obs'.var = obs.var /\ obs'.arg = obs.ret)
               => /\ _current'[obs.var] = _current[obs.var]
                  /\ initialized'[obs.var]
           /\ (/\ obs.op = "FromString" /\ obs'.op = "Get" /\ obs'.var = obs.var
                /\ initialized[obs.var]
                /\ obs.arg = Str(StringOf(_variables[obs.var].type,
                                          _current[obs.var])))
               => obs'.ret = _current[obs.var]
         ]_vars

\* C17, its case: an integer variable holding 255 has been rendered and parsed
\* back
C17_Witness ==
    /\ obs.op = "FromString"
    /\ _variables[obs.var].type = "UChar"
    /\ initialized[obs.var]
    /\ obs.arg = Str(<<"2", "5", "5">>)
    /\ _current[obs.var] = Num(255)

\* C18: the boolean parser yields true exactly for the texts "true", "1" and
\* "True"; for every other text it yields false, and the call returns.
C18_BoolParser ==
    (obs.op = "FromString" /\ _variables[obs.var].type = "Bool") =>
        /\ _current[obs.var] =
              Boo(obs.arg.s \in { <<"t", "r", "u", "e">>, <<"1">>,
                                  <<"T", "r", "u", "e">> })
        /\ obs.ret \in {Num(0), Num(1)}

\* C18, its case: "TRUE" has been parsed, to false
C18_Witness ==
    /\ obs.op = "FromString"
    /\ _variables[obs.var].type = "Bool"
    /\ obs.arg = Str(<<"T", "R", "U", "E">>)
    /\ _current[obs.var] = Boo(FALSE)

\* C19: whatever Init and End calls were made, the controller has at most one
\* namespace handle open: every handle opened and not yet closed is the one in
\* its handle field.
C19_SingleOpenHandle ==
    /\ openHandles \subseteq {_nvs_handle}
    /\ Cardinality(openHandles) <= 1

\* the log ends with the write of the version key and the commit
VersionWriteIssued ==
    /\ Len(initLog) >= 2
    /\ initLog[Len(initLog) - 1].call = "nvs_set_u32"
    /\ initLog[Len(initLog) - 1].key = CONFIG_VERSION_KEY
    /\ initLog[Len(initLog)].call = "nvs_commit"

\* C20: within one Init, OnInit is called only after the namespace has been
\* opened and the stored version read; the version key is written only after
\* OnInit has returned eOK, never before or while it runs; Status() becomes
\* eOK only at the end, after that write and the commit have been issued.
C20_InitStepsOrdered ==
    /\ [](\A k \in 1..Len(initLog) :
            /\ initLog[k].call = "OnInit" =>
                  /\ k >= 3
                  /\ initLog[k - 2] = Call("nvs_open_from_partition", "", ESP_OK)
                  /\ initLog[k - 1].call = "nvs_get_u32"
                  /\ initLog[k - 1].key = CONFIG_VERSION_KEY
            /\ initLog[k].call = "nvs_set_u32" =>
                  /\ k >= 2
                  /\ initLog[k - 1].call = "OnInit"
                  /\ pc \in {"Init142", "idle"}
                  /\ hook.result = "eOK"
                  /\ k < Len(initLog)
                  /\ initLog[k + 1].call = "nvs_commit")
    /\ [](pc \in {"Init101", "Init107", "hook", "Init142"} => Status # "eOK")
    /\ [][ /\ (nvs'[CONFIG_VERSION_KEY] # nvs[CONFIG_VERSION_KEY]
               /\ nvs'[CONFIG_VERSION_KEY] # NoEntry)
              => (LeavesHook /\ hook'.result = "eOK")
           /\ (Status' = "eOK" /\ Status # "eOK")
              => /\ pc = "Init142" /\ pc' = "idle"
                 /\ HookDone
                 /\ hook.result = "eOK"
                 /\ hook.stored # hook.current => VersionWriteIssued
         ]_vars

\* C20, its case: the OnInit of a migration has returned eOK, the write of the
\* version and the commit have been issued, and Status() is not eOK yet
C20_Witness ==
    /\ pc = "Init142"
    /\ HookDone
    /\ hook.result = "eOK"
    /\ hook.stored # hook.current
    /\ VersionWriteIssued
    /\ Status = "eINPROGRESS"

\* C21: the first backend access of a variable, the read that fixes its cached
\* value, happens only once Init has opened the namespace handle: no variable
\* is initialized before the first Init, and the getter runs only on an open
\* handle.
C21_FirstReadAfterOpen ==
    /\ [](\A i \in Indices : initialized[i] => Status # "eNOTINITIALIZED")
    /\ [][ \A i \in Indices :
              getterCalls'[i] # getterCalls[i] => _nvs_handle \in openHandles
         ]_vars

\* C22: the schema version stored under the version key changes only in Init
\* (the write after a successful migration, or the erase of the partition): no
\* Set, SetDefault or FromString of a variable changes it, whatever key the
\* variable was declared with.
C22_VersionKeyWrittenByInitOnly ==
    [][ StoredVersionIn(nvs') # StoredVersionIn(nvs) =>
           \/ /\ LeavesHook
              /\ hook'.result = "eOK"
              /\ storedVersion # CurrentVersion
           \/ /\ pc = "Init101"
              /\ nvs' = EmptyStore
      ]_vars

\* C23: End() on a Ready controller leaves it Closed, not Ready: from End()
\* until a later Init succeeds Status() is not eOK, so Status() is eOK only
\* while the controller holds a handle.
C23_ClosedAfterEnd ==
    /\ obs.op = "End" => Status # "eOK"
    /\ Status = "eOK" => _nvs_handle # 0

\* an Init has failed at the partition open or at the namespace open: it is
\* about to return or has just returned, and OnInit was not called
FailedBeforeHook ==
    /\ pc = "Init142" \/ JustReturned
    /\ obs.op = "Init"
    /\ CallsOf(initLog, "OnInit") = <<>>

\* what every such Init leaves alone: no put, no commit, the caches and the
\* initialized flags of the variables as Init found them
FailedInitFrame ==
    /\ retVal = "eFAILED"
    /\ \A k \in 1..Len(initLog) :
          initLog[k].call \in {"nvs_flash_init_partition",
                               "nvs_flash_erase_partition",
                               "nvs_open_from_partition"}
    /\ _current = obs.arg.current
    /\ initialized = obs.arg.initialized

\* C24 as stated: an Init that fails at the partition open or at the namespace
\* open calls no OnInit, issues no put and no commit, and leaves the stored
\* version and the cache and initialized flag of every variable unchanged.
C24_FailedInitChangesNothing ==
    FailedBeforeHook =>
        /\ FailedInitFrame
        /\ StoredVersionIn(nvs) = obs.arg.version

\* C24, amended: the same, except that an Init that erased the partition
\* before it failed has removed the stored version with everything else.
C24_FailedInitChangesNothingButErase ==
    FailedBeforeHook =>
        /\ FailedInitFrame
        /\ PartitionErases = <<>> => StoredVersionIn(nvs) = obs.arg.version
        /\ PartitionErases # <<>> => StoredVersionIn(nvs) = NoEntry

\* C24, its case: Init has erased a partition that held a version and then
\* failed to open the namespace; a variable read before keeps its cache
C24_Witness ==
    /\ FailedBeforeHook
    /\ JustReturned
    /\ PartitionErases # <<>>
    /\ CallsOf(initLog, "nvs_open_from_partition") # <<>>
    /\ obs.arg.version # NoEntry
    /\ StoredVersionIn(nvs) = NoEntry
    /\ \E i \in Indices : initialized[i]

\* the step is one of Init's own (lines 93-144 outside OnInit) or a call of End()
ControllerStep == pc' # pc \/ EndStep

\* C25: End() and Init() never reset a variable's initialized flag or its
\* cached value: no step of Init or End changes either, a variable that was
\* initialized when Init was called is still initialized when Init returns, and
\* a Get of an initialized variable returns the cached value with no backend
\* read, whatever the store holds by then.
C25_CachesSurviveEndAndInit ==
    /\ [][ ControllerStep => UNCHANGED <<_current, initialized>> ]_vars
    /\ []((JustReturned /\ obs.op = "Init") =>
            \A i \in Indices : obs.arg.initialized[i] => initialized[i])
    /\ [][ \A i \in Indices :
              (obs' # obs /\ obs'.op = "Get" /\ obs'.var = i /\ initialized[i]) =>
                  /\ obs'.calls = <<>>
                  /\ obs'.ret = _current[i]
                  /\ UNCHANGED <<_current, initialized, nvs>>
         ]_vars

\* C25, its case: a variable read before an End() that closed the handle, and
\* a successful re-Init after that End(): the variable is still initialized and
\* has the cache it had, which is not what the store holds
C25_Witness ==
    /\ JustReturned
    /\ obs.op = "Init"
    /\ Status = "eOK"
    /\ obs.arg.reopened
    /\ openHandles = {_nvs_handle}
    /\ \E i \in Indices :
         /\ obs.arg.initialized[i]
         /\ initialized[i]
         /\ _current[i] = obs.arg.current[i]
         /\ nvs[_variables[i].key] # Encode(_variables[i].type, _current[i])

\* the Init in progress or just returned has erased the partition and has then
\* opened the namespace
ErasedThenOpened ==
    /\ pc \in {"hook", "Init142"} \/ JustReturned
    /\ PartitionErases = <<Call("nvs_flash_erase_partition", "", ESP_OK)>>
    /\ CallsOf(initLog, "nvs_open_from_partition")
          = <<Call("nvs_open_from_partition", "", ESP_OK)>>

\* C26: whenever Init erases the partition and then opens the namespace, the
\* read of the stored version finds no entry and yields the default 0, OnInit
\* is called with storedVersion 0 and the (non-zero) current version, and the
\* mismatch branch is taken: the version is written exactly when OnInit
\* returns eOK.
C26_ErasedStoreReadsVersionZero ==
    ErasedThenOpened =>
        /\ CallsOf(initLog, "nvs_get_u32")
              = <<Call("nvs_get_u32", CONFIG_VERSION_KEY, ESP_ERR_NVS_NOT_FOUND)>>
        /\ CallsOf(initLog, "OnInit")
              = <<[call |-> "OnInit", stored |-> 0, current |-> CurrentVersion]>>
        /\ CurrentVersion # 0
        /\ pc \in {"hook", "Init142"} => storedVersion = 0
        /\ HookDone =>
              /\ hook.stored = 0
              /\ hook.current = CurrentVersion
              /\ hook.result = "eOK" => VersionWriteIssued
              /\ hook.result # "eOK" => CallsOf(initLog, "nvs_set_u32") = <<>>

\* C26, its case: the store held the current version when Init was called,
\* Init erased the partition, OnInit got storedVersion 0 and returned eOK, and
\* the version has been written again
C26_Witness ==
    /\ ErasedThenOpened
    /\ JustReturned
    /\ obs.op = "Init"
    /\ obs.arg.version = [u32 |-> CurrentVersion]
    /\ hook.stored = 0
    /\ hook.result = "eOK"
    /\ VersionWriteIssued
    /\ StoredVersionIn(nvs) = [u32 |-> CurrentVersion]

====
